---- MODULE Spec2Model ----
(***************************************************************************)
(* Model of testinit.c: a test init that prints a banner and its argument  *)
(* vector, lists "/" and "/bin", calls sync(), requests power-off and      *)
(* finally parks itself in pause().                                        *)
(*                                                                         *)
(* The process is single threaded.  Its state is the position in main or   *)
(* showdir (pc), the locals of both functions, the set of open directory   *)
(* streams, and the sequence of externally visible events it has produced  *)
(* so far (lines written to stdout / stderr and calls into the OS).        *)
(* The OS is the environment: opendir may fail, readdir yields entries     *)
(* until it returns NULL, reboot either powers the machine off or returns. *)
(***************************************************************************)
EXTENDS Integers, Sequences, FiniteSets, TLC

VARIABLES pc, argv, i, path, retpc, dir, ent, rc, handles, trace

vars == <<pc, argv, i, path, retpc, dir, ent, rc, handles, trace>>

-----------------------------------------------------------------------------
(* Bounds of the model *)

\* longest argument vector handed to main
MaxArgs == 3
\* most entries the directory streams of one run yield between them
MaxEntries == 3

-----------------------------------------------------------------------------
(* Inputs *)

\* argument vectors: empty (argc = 0), or a program name followed by options
OptionArgs == {"-x", "42"}

RECURSIVE SeqsUpTo(_, _)
SeqsUpTo(S, n) ==
    IF n = 0 THEN {<<>>}
    ELSE LET shorter == SeqsUpTo(S, n - 1)
         IN  shorter \cup {Append(s, x) : s \in shorter, x \in S}

ArgVectors ==
    {<<>>} \cup {<<"prog">> \o s : s \in SeqsUpTo(OptionArgs, MaxArgs - 1)}

\* what a struct dirent exposes (d_name, d_type) together with what the
\* entry really is on the filesystem (is_dir).  readdir(3) allows d_type to
\* be DT_UNKNOWN for any kind of entry.
FsEntries ==
    { [d_name |-> "bin",  d_type |-> "DT_DIR",     is_dir |-> TRUE],
      [d_name |-> "init", d_type |-> "DT_REG",     is_dir |-> FALSE],
      [d_name |-> "etc",  d_type |-> "DT_UNKNOWN", is_dir |-> TRUE] }

NoEnt == [d_name |-> "", d_type |-> "DT_UNKNOWN", is_dir |-> FALSE]

\* statuses reboot() may hand back when it returns at all
RcValues == {-1, 0, 5}

NULL == 0
NoPath == ""

-----------------------------------------------------------------------------
(* Text produced by the format strings *)

BannerLine == "HELLO WORLD!"
ArgvLine == "argv:"
BlankLine == ""

\* variant: positions counted from one
ArgLine_OneBased(idx, val) ==
    "[" \o ToString(idx + 1) \o "] = \"" \o val \o "\""

\* "[%d] = \"%s\"\n"
ArgLine(idx, val) == "[" \o ToString(idx) \o "] = \"" \o val \o "\""

\* "Failed to open %s\n"
OpenFailedLine(p) == "Failed to open " \o p

\* "Contents of %s:\n"
HeaderLine(p) == "Contents of " \o p \o ":"

\* variant: the type test is lost, every entry gets the separator
Suffix_Always(d_type) == "/"

\* ent->d_type == DT_DIR ? "/" : ""
Suffix(d_type) == IF d_type = "DT_DIR" THEN "/" ELSE ""

\* "%s%s\n"
EntryLine(e) == e.d_name \o Suffix(e.d_type)

\* "reboot() returned %d\n"
RebootLine(c) == "reboot() returned " \o ToString(c)

-----------------------------------------------------------------------------
(* Events *)

ShowdirPcs == {"opendir", "check_dir", "readdir", "print_ent", "closedir"}

\* the function an event comes from: main, or showdir(path)
Src == IF pc \in ShowdirPcs THEN path ELSE "main"

Ev(op, text, e) == [op |-> op, src |-> Src, text |-> text, ent |-> e]

Emit(op, text) == trace' = Append(trace, Ev(op, text, NoEnt))

\* entries the directory streams have yielded so far
Yielded ==
    SelectSeq(trace, LAMBDA ev : ev.op = "readdir" /\ ev.text = "entry")

\* a directory stream that is not open yet
NewHandle == 1 + Len(SelectSeq(trace, LAMBDA ev : ev.op = "opendir"))

-----------------------------------------------------------------------------
Init ==
    /\ pc = "banner"
    /\ argv \in ArgVectors
    /\ i = 0
    /\ path = NoPath
    /\ retpc = "none"
    /\ dir = NULL
    /\ ent = NoEnt
    /\ rc = 0
    /\ handles = {}
    /\ trace = <<>>

argc == Len(argv)

(* main *)

MainBanner ==
    /\ pc = "banner"
    /\ Emit("stdout", BannerLine)
    /\ pc' = "argv_hdr"
    /\ UNCHANGED <<argv, i, path, retpc, dir, ent, rc, handles>>

MainArgvHeader ==
    /\ pc = "argv_hdr"
    /\ Emit("stdout", ArgvLine)
    /\ i' = 0
    /\ pc' = "argv_loop"
    /\ UNCHANGED <<argv, path, retpc, dir, ent, rc, handles>>

MainArgvPrint ==
    /\ pc = "argv_loop"
    /\ i < argc
    /\ Emit("stdout", ArgLine(i, argv[i + 1]))
    /\ i' = i + 1
    /\ UNCHANGED <<pc, argv, path, retpc, dir, ent, rc, handles>>

MainArgvDone ==
    /\ pc = "argv_loop"
    /\ ~(i < argc)
    /\ pc' = "call_root"
    /\ UNCHANGED <<argv, i, path, retpc, dir, ent, rc, handles, trace>>

Call(p, ret) ==
    /\ path' = p
    /\ retpc' = ret
    /\ pc' = "opendir"

MainShowdirRoot ==
    /\ pc = "call_root"
    /\ Call("/", "blank")
    /\ UNCHANGED <<argv, i, dir, ent, rc, handles, trace>>

MainBlank ==
    /\ pc = "blank"
    /\ Emit("stdout", BlankLine)
    /\ pc' = "call_bin"
    /\ UNCHANGED <<argv, i, path, retpc, dir, ent, rc, handles>>

\* variant: the flush is left out between the second listing and reboot()
MainShowdirBin_SkipSync ==
    /\ pc = "call_bin"
    /\ Call("/bin", "reboot")
    /\ UNCHANGED <<argv, i, dir, ent, rc, handles, trace>>

MainShowdirBin ==
    /\ pc = "call_bin"
    /\ Call("/bin", "sync")
    /\ UNCHANGED <<argv, i, dir, ent, rc, handles, trace>>

MainSync ==
    /\ pc = "sync"
    /\ Emit("sync", "")
    /\ pc' = "reboot"
    /\ UNCHANGED <<argv, i, path, retpc, dir, ent, rc, handles>>

\* reboot(RB_POWER_OFF) succeeds: the machine goes down, the call never returns
MainRebootPowerOff ==
    /\ pc = "reboot"
    /\ Emit("reboot", "RB_POWER_OFF")
    /\ pc' = "powered_off"
    /\ UNCHANGED <<argv, i, path, retpc, dir, ent, rc, handles>>

\* reboot(RB_POWER_OFF) returns a status
MainRebootReturn ==
    /\ pc = "reboot"
    /\ Emit("reboot", "RB_POWER_OFF")
    /\ \E c \in RcValues : rc' = c
    /\ pc' = "check_rc"
    /\ UNCHANGED <<argv, i, path, retpc, dir, ent, handles>>

\* variant: main returns after reporting the failure
MainReportRc_ThenReturn ==
    /\ pc = "check_rc"
    /\ rc # 0
    /\ Emit("stdout", RebootLine(rc))
    /\ pc' = "returned"
    /\ UNCHANGED <<argv, i, path, retpc, dir, ent, rc, handles>>

MainReportRc ==
    /\ pc = "check_rc"
    /\ rc # 0
    /\ Emit("stdout", RebootLine(rc))
    /\ pc' = "pause"
    /\ UNCHANGED <<argv, i, path, retpc, dir, ent, rc, handles>>

\* variant: pause() sits inside the if, a zero status returns from main
MainSkipReport_Return ==
    /\ pc = "check_rc"
    /\ rc = 0
    /\ pc' = "returned"
    /\ UNCHANGED <<argv, i, path, retpc, dir, ent, rc, handles, trace>>

MainSkipReport ==
    /\ pc = "check_rc"
    /\ rc = 0
    /\ pc' = "pause"
    /\ UNCHANGED <<argv, i, path, retpc, dir, ent, rc, handles, trace>>

\* pause() returns only after a signal handler has run; the program installs
\* none, so the call blocks for good and "return 0" is never reached.
MainPause ==
    /\ pc = "pause"
    /\ Emit("pause", "")
    /\ pc' = "parked"
    /\ UNCHANGED <<argv, i, path, retpc, dir, ent, rc, handles>>

(* showdir *)

Return ==
    /\ pc' = retpc
    /\ retpc' = "none"
    /\ path' = NoPath
    /\ dir' = NULL
    /\ ent' = NoEnt

ShowdirOpendirOk ==
    /\ pc = "opendir"
    /\ Emit("opendir", "ok")
    /\ dir' = NewHandle
    /\ handles' = handles \cup {NewHandle}
    /\ pc' = "check_dir"
    /\ UNCHANGED <<argv, i, path, retpc, ent, rc>>

ShowdirOpendirFail ==
    /\ pc = "opendir"
    /\ Emit("opendir", "fail")
    /\ dir' = NULL
    /\ pc' = "check_dir"
    /\ UNCHANGED <<argv, i, path, retpc, ent, rc, handles>>

\* variant: the return after the error message is missing
ShowdirOpenFailed_FallThrough ==
    /\ pc = "check_dir"
    /\ dir = NULL
    /\ Emit("stderr", OpenFailedLine(path))
    /\ pc' = "readdir"
    /\ UNCHANGED <<argv, i, path, retpc, dir, ent, rc, handles>>

\* variant: the failure ends the process instead of returning to main
ShowdirOpenFailed_Exit ==
    /\ pc = "check_dir"
    /\ dir = NULL
    /\ Emit("stderr", OpenFailedLine(path))
    /\ pc' = "exited"
    /\ UNCHANGED <<argv, i, path, retpc, dir, ent, rc, handles>>

ShowdirOpenFailed ==
    /\ pc = "check_dir"
    /\ dir = NULL
    /\ Emit("stderr", OpenFailedLine(path))
    /\ Return
    /\ UNCHANGED <<argv, i, rc, handles>>

ShowdirHeader ==
    /\ pc = "check_dir"
    /\ dir # NULL
    /\ Emit("stdout", HeaderLine(path))
    /\ pc' = "readdir"
    /\ UNCHANGED <<argv, i, path, retpc, dir, ent, rc, handles>>

ShowdirReaddirEntry ==
    /\ pc = "readdir"
    /\ Len(Yielded) < MaxEntries
    /\ \E e \in FsEntries :
          /\ ent' = e
          /\ trace' = Append(trace, Ev("readdir", "entry", e))
    /\ pc' = "print_ent"
    /\ UNCHANGED <<argv, i, path, retpc, dir, rc, handles>>

\* end of the stream, or a read error: the loop cannot tell them apart
ShowdirReaddirNull ==
    /\ pc = "readdir"
    /\ ent' = NoEnt
    /\ Emit("readdir", "NULL")
    /\ pc' = "closedir"
    /\ UNCHANGED <<argv, i, path, retpc, dir, rc, handles>>

\* variant: the entry line is written twice
ShowdirPrintEntry_Twice ==
    /\ pc = "print_ent"
    /\ trace' = trace \o <<Ev("stdout", EntryLine(ent), NoEnt),
                           Ev("stdout", EntryLine(ent), NoEnt)>>
    /\ pc' = "readdir"
    /\ UNCHANGED <<argv, i, path, retpc, dir, ent, rc, handles>>

ShowdirPrintEntry ==
    /\ pc = "print_ent"
    /\ Emit("stdout", EntryLine(ent))
    /\ pc' = "readdir"
    /\ UNCHANGED <<argv, i, path, retpc, dir, ent, rc, handles>>

\* variant: showdir returns without closing the stream
ShowdirClosedir_Leak ==
    /\ pc = "closedir"
    /\ Emit("closedir", "")
    /\ Return
    /\ UNCHANGED <<argv, i, rc, handles>>

ShowdirClosedir ==
    /\ pc = "closedir"
    /\ Emit("closedir", "")
    /\ handles' = handles \ {dir}
    /\ Return
    /\ UNCHANGED <<argv, i, rc>>

Next ==
    \/ MainBanner
    \/ MainArgvHeader
    \/ MainArgvPrint
    \/ MainArgvDone
    \/ MainShowdirRoot
    \/ MainBlank
    \/ MainShowdirBin
    \/ MainSync
    \/ MainRebootPowerOff
    \/ MainRebootReturn
    \/ MainReportRc
    \/ MainSkipReport
    \/ MainPause
    \/ ShowdirOpendirOk
    \/ ShowdirOpendirFail
    \/ ShowdirOpenFailed
    \/ ShowdirHeader
    \/ ShowdirReaddirEntry
    \/ ShowdirReaddirNull
    \/ ShowdirPrintEntry
    \/ ShowdirClosedir

Spec == Init /\ [][Next]_vars

\* the process is the only thread and every call it makes before pause()
\* comes back or ends the run, so it keeps taking steps while it has one
FairSpec == Init /\ [][Next]_vars /\ WF_vars(Next)

TypeOK ==
    /\ argv \in ArgVectors
    /\ i \in 0..argc
    /\ path \in {NoPath, "/", "/bin"}
    /\ handles \subseteq 1..2
    /\ rc \in RcValues

-----------------------------------------------------------------------------
(* Observations on the event sequence *)

Paths == {"/", "/bin"}
Halted == {"parked", "powered_off"}

Min(S) == CHOOSE x \in S : \A y \in S : x <= y

Texts(s) == [k \in 1..Len(s) |-> s[k].text]

\* events of showdir(p), resp. of main when p = "main"
From(p) == SelectSeq(trace, LAMBDA ev : ev.src = p)

Of(s, op) == SelectSeq(s, LAMBDA ev : ev.op = op)

WithText(s, t) == SelectSeq(s, LAMBDA ev : ev.text = t)

Stdout == Of(trace, "stdout")

OpenFailed(p) == Len(WithText(Of(From(p), "opendir"), "fail")) > 0
OpenOk(p) == Len(WithText(Of(From(p), "opendir"), "ok")) > 0

\* showdir(p) has been entered and has returned
Listed(p) == Len(From(p)) > 0 /\ Src # p

PastArgv == pc \notin {"banner", "argv_hdr", "argv_loop"}

RebootReturned == pc \in {"check_rc", "pause", "parked"}

-----------------------------------------------------------------------------
\* C1: for an argument vector of length N the lines printed after "argv:" and
\* before the first listing are exactly N lines, the k-th (from 0) being
\* [k] = "<argv[k]>": same order, nothing skipped or repeated.  While the loop
\* runs the section is the first i of those lines.
ArgvSection ==
    LET hdr  == Min({k \in 1..Len(trace) : trace[k].text = "argv:"})
        rest == {k \in 1..Len(trace) : trace[k].src # "main"}
        last == IF rest = {} THEN Len(trace) ELSE Min(rest) - 1
    IN  SubSeq(trace, hdr + 1, last)

C1_ArgvEcho ==
    pc \notin {"banner", "argv_hdr"} =>
       LET n == IF pc = "argv_loop" THEN i ELSE Len(argv)
       IN  /\ Len(ArgvSection) = n
           /\ \A k \in 1..n :
                 /\ ArgvSection[k].op = "stdout"
                 /\ ArgvSection[k].text =
                       "[" \o ToString(k - 1) \o "] = \"" \o argv[k] \o "\""
           /\ (PastArgv /\ argv = <<"prog", "-x", "42">> =>
                 Texts(ArgvSection) =
                    <<"[0] = \"prog\"", "[1] = \"-x\"", "[2] = \"42\"">>)

C1_Witness ==
    /\ pc = "parked"
    /\ argv = <<"prog", "-x", "42">>
    /\ Len(ArgvSection) = 3

-----------------------------------------------------------------------------
\* C2: when reboot() returns a nonzero status c, "reboot() returned c" is
\* written to stdout exactly once, and the process then reaches pause() and
\* stays parked for ever.
ReportCount(c) ==
    Len(WithText(Stdout, "reboot() returned " \o ToString(c)))

C2_FailureReported ==
    /\ [](pc \in {"pause", "parked"} /\ rc # 0 =>
             /\ ReportCount(rc) = 1
             /\ (rc = 5 => Len(WithText(Stdout, "reboot() returned 5")) = 1))
    /\ ((pc = "check_rc" /\ rc # 0) ~> [](pc = "parked"))
    /\ [](pc = "parked" => trace[Len(trace)].op = "pause")

C2_Witness ==
    /\ pc = "parked"
    /\ rc = 5
    /\ ReportCount(5) = 1

-----------------------------------------------------------------------------
\* C3: a listing whose opendir failed produces one line on stderr and nothing
\* else: no stdout line, no readdir and no closedir for that path.
C3_OpenFailureSilent ==
    \A p \in Paths :
       OpenFailed(p) =>
          /\ \A k \in 1..Len(From(p)) : From(p)[k].op \in {"opendir", "stderr"}
          /\ Len(Of(From(p), "opendir")) = 1
          /\ Len(Of(From(p), "stderr")) = IF Src = p THEN 0 ELSE 1
          /\ Texts(Of(From(p), "stderr")) \in {<<>>, <<"Failed to open " \o p>>}

C3_Witness ==
    /\ pc = "sync"
    /\ OpenFailed("/bin")
    /\ Texts(Of(trace, "stderr")) = <<"Failed to open /bin">>

-----------------------------------------------------------------------------
\* C4: whatever opendir does on "/" and on "/bin", the run goes on: once an
\* open has failed the process still reaches the end of main, and by then it
\* has attempted both listings in order, called sync() and reboot() once each
\* and, if reboot() came back, pause().
Pos(op, p) == {k \in 1..Len(trace) : trace[k].op = op /\ trace[k].src = p}

C4_BootSequenceCompleted ==
    /\ Cardinality(Pos("opendir", "/")) = 1
    /\ Cardinality(Pos("opendir", "/bin")) = 1
    /\ Cardinality(Pos("sync", "main")) = 1
    /\ Cardinality(Pos("reboot", "main")) = 1
    /\ \A a \in Pos("opendir", "/") : \A b \in Pos("opendir", "/bin") : a < b
    /\ \A a \in Pos("opendir", "/bin") : \A b \in Pos("sync", "main") : a < b
    /\ \A a \in Pos("sync", "main") : \A b \in Pos("reboot", "main") : a < b
    /\ (pc = "parked" =>
          /\ Cardinality(Pos("pause", "main")) = 1
          /\ \A a \in Pos("reboot", "main") : \A b \in Pos("pause", "main") : a < b)

C4_OpenFailureContinues ==
    /\ [](pc \in Halted => C4_BootSequenceCompleted)
    /\ \A p \in Paths : (OpenFailed(p) ~> pc \in Halted)
    /\ [](OpenFailed("/") /\ Listed("/") => pc \notin {"banner", "argv_hdr", "argv_loop", "call_root"})

C4_Witness ==
    /\ pc = "parked"
    /\ OpenFailed("/")
    /\ OpenFailed("/bin")
    /\ C4_BootSequenceCompleted

-----------------------------------------------------------------------------
\* C5: a directory stream opened by showdir is closed before showdir returns:
\* at most one stream is open at any time, none is open outside showdir (in
\* particular at the second call, at sync(), at reboot() and while parked),
\* and every successful opendir of a finished listing has its closedir.
C5_HandlesReleased ==
    /\ Cardinality(handles) <= 1
    /\ (pc \notin ShowdirPcs => handles = {})
    /\ (pc = "opendir" => handles = {})
    /\ (pc \in {"call_bin", "sync", "reboot", "check_rc", "pause", "parked",
                "powered_off"} => handles = {})
    /\ \A p \in Paths :
          Listed(p) /\ OpenOk(p) =>
             /\ Len(Of(From(p), "closedir")) = 1
             /\ From(p)[Len(From(p))].op = "closedir"

C5_Witness ==
    /\ pc = "parked"
    /\ OpenOk("/")
    /\ OpenOk("/bin")
    /\ Len(Of(trace, "closedir")) = 2
    /\ handles = {}

-----------------------------------------------------------------------------
\* the line printed for the entry that readdir yielded at position k
Printed(k) == trace[k + 1]

EntryReads == {k \in 1..Len(trace) - 1 :
                  trace[k].op = "readdir" /\ trace[k].text = "entry"}

\* C6: an entry reported as DT_DIR is printed as name/ ; an entry reported
\* with a known type other than DT_DIR is printed as its bare name.
C6_KnownTypeSuffix ==
    \A k \in EntryReads :
       LET e == trace[k].ent
       IN  /\ Printed(k).op = "stdout"
           /\ (e.d_type = "DT_DIR" => Printed(k).text = e.d_name \o "/")
           /\ (e.d_type \notin {"DT_DIR", "DT_UNKNOWN"} =>
                  Printed(k).text = e.d_name)

C6_Witness ==
    /\ \E k \in EntryReads :
          trace[k].ent.d_type = "DT_DIR" /\ Printed(k).text = "bin/"
    /\ \E k \in EntryReads :
          trace[k].ent.d_type = "DT_REG" /\ Printed(k).text = "init"

-----------------------------------------------------------------------------
\* C7: every entry is printed with a trailing "/" exactly when it is a
\* sub-directory on the filesystem.
C7_SlashIffDirectory ==
    \A k \in EntryReads :
       LET e == trace[k].ent
       IN  Printed(k).text = e.d_name \o (IF e.is_dir THEN "/" ELSE "")

-----------------------------------------------------------------------------
\* C8: a listing that opened its directory prints "Contents of <path>:" once
\* and then one line per entry yielded by readdir, in the order yielded;
\* with no entry yielded only the header is printed.
C8_HeaderThenEntries ==
    \A p \in Paths :
       OpenOk(p) /\ (Src = p => pc # "check_dir") =>
          LET out == Of(From(p), "stdout")
              ys  == WithText(Of(From(p), "readdir"), "entry")
              k   == IF Src = p /\ pc = "print_ent" THEN Len(ys) - 1
                     ELSE Len(ys)
          IN  /\ Len(out) = 1 + k
              /\ out[1].text = "Contents of " \o p \o ":"
              /\ Len(WithText(Stdout, "Contents of " \o p \o ":")) = 1
              /\ \A j \in 1..k :
                    out[j + 1].text \in
                       {ys[j].ent.d_name, ys[j].ent.d_name \o "/"}

C8_Witness ==
    /\ pc = "sync"
    /\ Texts(Of(From("/"), "stdout")) = <<"Contents of /:", "init", "bin/">>
    /\ Texts(Of(From("/bin"), "stdout")) = <<"Contents of /bin:">>

-----------------------------------------------------------------------------
\* C9: the steps come in one fixed order, each once: banner, argv section,
\* listing of "/", blank line, listing of "/bin", sync(), reboot().
Step(ev) ==
    CASE ev.src = "/" -> 3
      [] ev.src = "/bin" -> 5
      [] ev.op = "sync" -> 6
      [] ev.op = "reboot" -> 7
      [] ev.op = "pause" -> 9
      [] ev.op = "stdout" /\ ev.text = "HELLO WORLD!" -> 1
      [] ev.op = "stdout" /\ ev.text = "argv:" -> 2
      [] ev.op = "stdout" /\ ev.text = "" -> 4
      [] ev.op = "stdout" /\ ev.text \in
            {"[" \o ToString(k - 1) \o "] = \"" \o argv[k] \o "\"" :
                k \in 1..Len(argv)} -> 2
      [] ev.op = "stdout" /\ ev.text \in
            {"reboot() returned " \o ToString(c) : c \in RcValues} -> 8
      [] OTHER -> 0

Steps == [k \in 1..Len(trace) |-> Step(trace[k])]

C9_FixedOrder ==
    LET st == Steps
        Times(n) == Cardinality({k \in 1..Len(st) : st[k] = n})
        once == {1, 4, 6, 7}
    IN  /\ \A k \in 1..Len(st) : st[k] >= 1
        /\ \A k \in 1..Len(st) - 1 : st[k] <= st[k + 1]
        /\ \A n \in once : Times(n) <= 1
        /\ Len(WithText(Stdout, "argv:")) <= 1
        /\ \A p \in Paths : Cardinality(Pos("opendir", p)) <= 1
        /\ (Times(7) = 1 =>
              /\ \A n \in once : Times(n) = 1
              /\ Len(WithText(Stdout, "argv:")) = 1
              /\ \A p \in Paths : Cardinality(Pos("opendir", p)) = 1)
        /\ (Times(6) = 1 => Listed("/") /\ Listed("/bin"))
        /\ (Times(4) = 1 => Listed("/"))

C9_Witness ==
    /\ pc = "powered_off"
    /\ Len(WithText(Of(From("/"), "readdir"), "entry")) = 2
    /\ Len(WithText(Of(From("/bin"), "readdir"), "entry")) = 1
    /\ Len(Of(trace, "sync")) = 1

-----------------------------------------------------------------------------
\* C10: when reboot() returns, with status zero or not, the process goes on
\* to pause() and stays parked; between the return and pause() at most the
\* "reboot() returned <code>" line is emitted, and a parked process takes no
\* further step.
AfterReboot ==
    LET r == Min(Pos("reboot", "main"))
    IN  SubSeq(trace, r + 1, Len(trace))

C10_ParkedForGood ==
    /\ [](RebootReturned =>
            LET report == [op |-> "stdout", src |-> "main",
                           text |-> "reboot() returned " \o ToString(rc),
                           ent |-> NoEnt]
                parked == [op |-> "pause", src |-> "main", text |-> "",
                           ent |-> NoEnt]
            IN  AfterReboot =
                   (IF rc # 0 /\ pc # "check_rc" THEN <<report>> ELSE <<>>)
                   \o (IF pc = "parked" THEN <<parked>> ELSE <<>>))
    /\ (pc = "check_rc" ~> [](pc = "parked"))
    /\ [][pc # "parked"]_vars

C10_Witness ==
    /\ pc = "parked"
    /\ rc = 0
    /\ Len(AfterReboot) = 1
====
